---- MODULE Spec2Model ----
(***************************************************************************)
(* A model of app.py, the Flask CRUD API over one SQLite table "items".    *)
(*                                                                         *)
(* The store is the committed content of the table (items), the            *)
(* AUTOINCREMENT counter SQLite keeps in sqlite_sequence, and the store's  *)
(* clock in whole seconds (CURRENT_TIMESTAMP has a resolution of 1 s).      *)
(* Every request runs on a worker with its own connection.  A handler is   *)
(* cut at its store statements: each SQL statement (a write together with  *)
(* the db.commit() that follows it, which SQLite serialises under its      *)
(* write lock) is one atomic step, and requests of different workers       *)
(* interleave between the steps.                                           *)
(***************************************************************************)
EXTENDS Integers, Sequences, FiniteSets, TLC

\* Number of requests (and init_db runs) started in one behaviour.
MaxOps == 2
\* Last second the store's clock reaches.
MaxClock == 1

\* The workers of the serving layer, one request each at a time.  A request goes
\* to the first idle worker: the workers are interchangeable.
WorkerOrder == <<"w1", "w2">>
Workers == {WorkerOrder[i] : i \in 1..Len(WorkerOrder)}

VARIABLES
    items,            \* committed rows of the table items
    sqlite_sequence,  \* largest rowid AUTOINCREMENT has ever handed out
    now,              \* CURRENT_TIMESTAMP, in seconds
    req,              \* per worker: the request in progress and the handler's locals
    resp,             \* per worker: the handler's return value, once it returned
    log,              \* per worker: what the handler passed to logger.error ("" if nothing)
    g_db,             \* per worker: 'db' in g, the context holds a connection
    leaked,           \* a context ended and left its connection open
    teardown_error,   \* the teardown function raised
    nops,             \* requests started so far
    assigned,         \* history: the rowids handed out by INSERT, in order
    deleted_ok        \* history: ids whose DELETE request answered 200

vars == <<items, sqlite_sequence, now, req, resp, log, g_db, leaked,
          teardown_error, nops, assigned, deleted_ok>>

-----------------------------------------------------------------------------
(* JSON / SQL values.  A value is a tagged record whose payload is the     *)
(* literal text, so that values of different types can be compared.        *)

Str(s) == [t |-> "str", v |-> s]
Num(s) == [t |-> "num", v |-> s]
Null == [t |-> "null", v |-> ""]

\* Literals that Python's int() accepts, and the further ones float() accepts.
IntLiterals == {"0", "3", "5", "15", "20", "30", "50"}
FloatLiterals == IntLiterals \cup {"5.0", "999.99", "12.99", "39.99", "29.99", "4.99"}

\* bool(x) for a JSON value: "", 0, 0.0 and None are false.
Truthy(x) ==
    CASE x.t = "null" -> FALSE
      [] x.t = "str" -> x.v # ""
      [] x.t = "num" -> x.v \notin {"0", "0.0"}

\* float(x) raises ValueError or TypeError.
FloatRaises(x) ==
    CASE x.t = "num" -> FALSE
      [] x.t = "str" -> x.v \notin FloatLiterals
      [] x.t = "null" -> TRUE

\* int(x) raises ValueError or TypeError: int("5.0") raises, int(5.0) does not.
IntRaises(x) ==
    CASE x.t = "num" -> FALSE
      [] x.t = "str" -> x.v \notin IntLiterals
      [] x.t = "null" -> TRUE

\* data.get(key, default)
Get(data, key, default) == IF key \in DOMAIN data THEN data[key] ELSE default

-----------------------------------------------------------------------------
(* validate_item_data                                                      *)

RECURSIVE RequiredErrors(_, _)
RequiredErrors(data, required_fields) ==
    IF required_fields = <<>> THEN <<>>
    ELSE LET field == Head(required_fields)
             rest == RequiredErrors(data, Tail(required_fields))
         IN IF field \notin DOMAIN data \/ ~Truthy(data[field])
            THEN <<"'" \o field \o "' is required">> \o rest
            ELSE rest

\* The default of required_fields when the caller passes none.
DefaultRequiredFields == <<"name">>

validate_item_data(data, required_fields) ==
    RequiredErrors(data, required_fields)
    \o (IF "price" \in DOMAIN data /\ data["price"] # Null /\ FloatRaises(data["price"])
        THEN <<"'price' must be a valid number">> ELSE <<>>)
    \o (IF "quantity" \in DOMAIN data /\ data["quantity"] # Null /\ IntRaises(data["quantity"])
        THEN <<"'quantity' must be a valid integer">> ELSE <<>>)

-----------------------------------------------------------------------------
(* The table: schema, column affinities, statements.                       *)

\* What a TEXT column stores for a bound value: numbers become their text.
TextAffinity(x) == IF x.t = "num" THEN Str(x.v) ELSE x

\* What a REAL column stores: numeric text and integers become reals.
RealAffinity(x) ==
    IF x.t = "null" \/ x.v \notin FloatLiterals THEN x
    ELSE Num(IF x.v \in IntLiterals THEN x.v \o ".0" ELSE x.v)

\* What an INTEGER column stores: numeric text becomes a number, and a real
\* without a fractional part becomes an integer.
IntegerAffinity(x) ==
    IF x.t = "null" \/ x.v \notin FloatLiterals THEN x
    ELSE Num(IF x.v = "5.0" THEN "5" ELSE x.v)

\* The value a column of the table stores for a bound parameter.
Affinity(field, x) ==
    CASE field \in {"name", "description", "category"} -> TextAffinity(x)
      [] field = "price" -> RealAffinity(x)
      [] field = "quantity" -> IntegerAffinity(x)

\* The row INSERT INTO items (name, description, category, price, quantity)
\* creates: both timestamps default to CURRENT_TIMESTAMP of the statement.
InsertRow(id, values, t) ==
    [id |-> id,
     name |-> Affinity("name", values[1]),
     description |-> Affinity("description", values[2]),
     category |-> Affinity("category", values[3]),
     price |-> Affinity("price", values[4]),
     quantity |-> Affinity("quantity", values[5]),
     created_at |-> t,
     updated_at |-> t]

MaxRowid(rows) == IF rows = {} THEN 0 ELSE CHOOSE m \in {r.id : r \in rows} : \A r \in rows : r.id <= m

\* A rowid one larger than the largest in the table now: what INTEGER PRIMARY KEY
\* without AUTOINCREMENT hands out.
NextRowid_reuse(rows, seq) == MaxRowid(rows) + 1

\* INTEGER PRIMARY KEY AUTOINCREMENT: one larger than the largest rowid the table
\* has ever held, which sqlite_sequence remembers.
NextRowid(rows, seq) == (IF seq >= MaxRowid(rows) THEN seq ELSE MaxRowid(rows)) + 1

\* SELECT * FROM items WHERE id = ?  followed by fetchone(): a set of at most one row.
SelectById(rows, id) == {r \in rows : r.id = id}

\* The trigger left out: updated_at keeps its value.
update_timestamp_off(rows, id, t) == rows

\* TRIGGER update_timestamp AFTER UPDATE ON items.
update_timestamp(rows, id, t) ==
    {IF r.id = id THEN [r EXCEPT !.updated_at = t] ELSE r : r \in rows}

\* The columns of the SET clause update_item builds: the mutable fields in data.
MutableFields == <<"name", "description", "category", "price", "quantity">>

UpdateFields(data) == SelectSeq(MutableFields, LAMBDA f : f \in DOMAIN data)

\* UPDATE items SET <fields of data> WHERE id = ?, and the trigger when a row matched.
UpdateRows(rows, id, data, t) ==
    LET set(r) == [f \in DOMAIN r |->
                     IF f \in DOMAIN data /\ f \in {MutableFields[i] : i \in 1..Len(MutableFields)}
                     THEN Affinity(f, data[f]) ELSE r[f]]
        updated == {IF r.id = id THEN set(r) ELSE r : r \in rows}
    IN IF SelectById(rows, id) = {} THEN rows ELSE update_timestamp(updated, id, t)

\* A DELETE that only marks: the row stays in the table.
DeleteRows_keep(rows, id) == rows

\* DELETE FROM items WHERE id = ?
DeleteRows(rows, id) == {r \in rows : r.id # id}

RECURSIVE SortById(_)
\* ORDER BY id ASC
SortById(rows) ==
    IF rows = {} THEN <<>>
    ELSE LET r == CHOOSE r \in rows : \A q \in rows : r.id <= q.id
         IN <<r>> \o SortById(rows \ {r})

\* LIMIT ? OFFSET ?: a negative LIMIT is no limit, a negative OFFSET is 0.
LimitOffset(seq, limit, offset) ==
    LET off == IF offset < 0 THEN 0 ELSE offset
        last == IF limit < 0 \/ off + limit > Len(seq) THEN Len(seq) ELSE off + limit
    IN SubSeq(seq, off + 1, last)

\* WHERE 1=1 [AND category = ?]: the filter is added when the parameter is truthy.
Matching(rows, category) ==
    IF category = "" THEN rows ELSE {r \in rows : r.category = Str(category)}

\* sample_items of init_db.
sample_items ==
    << <<Str("Laptop"), Str("High-performance laptop for development"), Str("Electronics"), Num("999.99"), Num("5")>>,
       <<Str("Coffee Mug"), Str("Ceramic mug for hot beverages"), Str("Kitchen"), Num("12.99"), Num("20")>>,
       <<Str("Python Book"), Str("Learn Python programming"), Str("Books"), Num("39.99"), Num("15")>>,
       <<Str("Wireless Mouse"), Str("Ergonomic wireless mouse"), Str("Electronics"), Num("29.99"), Num("30")>>,
       <<Str("Notebook"), Str("Spiral-bound notebook"), Str("Office"), Num("4.99"), Num("50")>> >>

RECURSIVE InsertAll(_, _, _, _)
\* The loop of init_db: one INSERT per sample item.  The result is the table, the
\* counter and the rowids handed out.
InsertAll(db, samples, t, ids) ==
    IF samples = <<>> THEN [rows |-> db.rows, seq |-> db.seq, ids |-> ids]
    ELSE LET id == NextRowid(db.rows, db.seq)
         IN InsertAll([rows |-> db.rows \cup {InsertRow(id, Head(samples), t)}, seq |-> id],
                      Tail(samples), t, Append(ids, id))

\* init_db's statements on a table: seed it if SELECT COUNT(*) is 0.
Initialized(db, t) ==
    IF Cardinality(db.rows) = 0 THEN InsertAll(db, sample_items, t, <<>>)
    ELSE [rows |-> db.rows, seq |-> db.seq, ids |-> <<>>]

-----------------------------------------------------------------------------
(* Requests.                                                               *)

\* The JSON object {}.
EmptyBody == [f \in {} |-> Null]

\* The request bodies: {}, a partial body, a body with name, a body with three
\* invalid fields, and a full body whose price is numeric text.
Bodies ==
    { EmptyBody,
      [price |-> Num("5.0")],
      [name |-> Str("A"), price |-> Num("5.0")],
      [price |-> Str("abc"), quantity |-> Str("x")],
      [name |-> Str("B"), description |-> Str("d"), category |-> Str("Kitchen"),
       price |-> Str("5"), quantity |-> Num("3")] }

\* The ids of the request paths: the last sample item, which holds the largest id
\* of the seeded table, and the first id a create is given.
PathIds == {Len(sample_items), Len(sample_items) + 1}

\* The query strings of GET /items, as <<page, per_page, category>> ("" is no
\* category): two pages of two, a per_page above the cap with a filter, per_page 0
\* and a negative per_page.
Queries == { <<1, 2, "">>, <<2, 2, "">>, <<1, 101, "Electronics">>, <<1, 0, "">>,
             <<2, -1, "">> }

Idle == [op |-> "idle", pc |-> "idle"]
NoResp == [status |-> 0]
NoLog == [msg |-> "", exc |-> ""]

\* The locals of a handler after its first step, and what the properties need of
\* the request: stmts counts the statements it has issued to the store, rowcount is
\* the number of rows its write changed, t0 the second it began in, gone whether a
\* DELETE of its id had answered 200 before it began.
Started(op, pc, id, data, existing, stmts) ==
    [op |-> op, pc |-> pc, id |-> id, data |-> data, existing |-> existing,
     stmts |-> stmts, rowcount |-> 0, t0 |-> now, gone |-> id \in deleted_ok]

\* The exceptions the handlers raise themselves.
AttributeError == "'NoneType' object has no attribute 'keys'"
ZeroDivisionError == "integer division or modulo by zero"

\* An except clause that puts str(e) into the body.
InternalServerError_leak(e) == [status |-> 500, error |-> e]

\* The except clause of get_items, get_item, create_item, update_item, delete_item
\* and get_categories: the body it returns.
InternalServerError(e) == [status |-> 500, error |-> "Internal server error"]

\* The except clause of health_check: the body it returns.
Unhealthy(e) == [status |-> 500, health |-> "unhealthy", error |-> e]

\* logger.error(f"<msg>: {str(e)}")
LogMessage ==
    [get_items |-> "Error getting items", get_item |-> "Error getting item",
     create |-> "Error creating item", update |-> "Error updating item",
     delete |-> "Error deleting item", categories |-> "Error getting categories"]

\* get_db in the context of worker w: connect unless the context has a connection.
get_db(w) ==
    /\ g_db' = [g_db EXCEPT ![w] = TRUE]
    /\ leaked' = leaked

Begin(w) ==
    /\ nops < MaxOps
    /\ \E i \in 1..Len(WorkerOrder) :
          /\ w = WorkerOrder[i]
          /\ req[w] = Idle
          /\ \A j \in 1..(i - 1) : req[WorkerOrder[j]] # Idle

\* The handler of worker w returns response r without an exception.
Return(w, r, response) ==
    /\ req' = [req EXCEPT ![w] = [r EXCEPT !.pc = "done"]]
    /\ resp' = [resp EXCEPT ![w] = response]
    /\ log' = log

\* The handler of worker w leaves its try block with exception e.
Except(w, r, e) ==
    /\ req' = [req EXCEPT ![w] = [r EXCEPT !.pc = "done"]]
    /\ IF r.op = "health"
       THEN /\ resp' = [resp EXCEPT ![w] = Unhealthy(e)]
            /\ log' = log
       ELSE /\ resp' = [resp EXCEPT ![w] = InternalServerError(e)]
            /\ log' = [log EXCEPT ![w] = [msg |-> LogMessage[r.op], exc |-> e]]

\* The store after init_db ran on a new database at second 0, with all five sample
\* items or after DELETE requests answered 200 for all but the last of them; no
\* request is in progress.
Init ==
    /\ \E kept \in {1..Len(sample_items), {Len(sample_items)}} :
          LET db == Initialized([rows |-> {}, seq |-> 0], 0)
          IN /\ items = {r \in db.rows : r.id \in kept}
             /\ sqlite_sequence = db.seq
             /\ assigned = db.ids
             /\ deleted_ok = {r.id : r \in db.rows} \ kept
    /\ now = 0
    /\ req = [w \in Workers |-> Idle]
    /\ resp = [w \in Workers |-> NoResp]
    /\ log = [w \in Workers |-> NoLog]
    /\ g_db = [w \in Workers |-> FALSE]
    /\ leaked = FALSE
    /\ teardown_error = FALSE
    /\ nops = 0

\* POST /items: get_json, the checks, and when they pass get_db, INSERT and commit.
create_item(w, data) ==
    /\ Begin(w)
    /\ nops' = nops + 1
    /\ LET errors == validate_item_data(data, <<"name">>)
           id == NextRowid(items, sqlite_sequence)
           row == InsertRow(id, <<data["name"], Get(data, "description", Null),
                                  Get(data, "category", Null), Get(data, "price", Null),
                                  Get(data, "quantity", Num("0"))>>, now)
       IN IF data = EmptyBody
          THEN /\ Return(w, Started("create", "done", 0, data, {}, 0),
                         [status |-> 400, error |-> "No JSON data provided"])
               /\ UNCHANGED <<items, sqlite_sequence, assigned, g_db, leaked>>
          ELSE IF errors # <<>>
          THEN /\ Return(w, Started("create", "done", 0, data, {}, 0),
                         [status |-> 400, error |-> "Validation failed", details |-> errors])
               /\ UNCHANGED <<items, sqlite_sequence, assigned, g_db, leaked>>
          ELSE /\ items' = items \cup {row}
               /\ sqlite_sequence' = id
               /\ assigned' = Append(assigned, id)
               /\ get_db(w)
               /\ req' = [req EXCEPT ![w] = Started("create", "select", id, data, {}, 1)]
               /\ UNCHANGED <<resp, log>>
    /\ UNCHANGED <<now, teardown_error, deleted_ok>>

\* create_item, the SELECT of the created row by cursor.lastrowid and the response.
create_select(w) ==
    /\ req[w].op = "create" /\ req[w].pc = "select"
    /\ LET r == [req[w] EXCEPT !.stmts = @ + 1]
           item == SelectById(items, r.id)
       IN IF item = {}
          THEN Except(w, r, AttributeError)
          ELSE Return(w, r, [status |-> 201, message |-> "Item created successfully",
                             item |-> CHOOSE row \in item : TRUE])
    /\ UNCHANGED <<items, sqlite_sequence, now, g_db, leaked, teardown_error, nops,
                   assigned, deleted_ok>>

\* PUT /items/<id>: get_json, get_db, the existence SELECT, then the checks.
update_item(w, item_id, data) ==
    /\ Begin(w)
    /\ nops' = nops + 1
    /\ LET existing_item == SelectById(items, item_id)
           errors == validate_item_data(data, DefaultRequiredFields)
           r == Started("update", "update", item_id, data, existing_item, 1)
       IN IF data = EmptyBody
          THEN /\ Return(w, [r EXCEPT !.stmts = 0, !.existing = {}],
                         [status |-> 400, error |-> "No JSON data provided"])
               /\ UNCHANGED <<g_db, leaked>>
          ELSE /\ get_db(w)
               /\ IF existing_item = {}
                  THEN Return(w, r, [status |-> 404, error |-> "Item not found"])
                  ELSE IF errors # <<>>
                  THEN Return(w, r, [status |-> 400, error |-> "Validation failed",
                                     details |-> errors])
                  ELSE IF UpdateFields(data) = <<>>
                  THEN Return(w, r, [status |-> 400, error |-> "No valid fields to update"])
                  ELSE /\ req' = [req EXCEPT ![w] = r]
                       /\ UNCHANGED <<resp, log>>
    /\ UNCHANGED <<items, sqlite_sequence, now, teardown_error, assigned, deleted_ok>>

\* update_item, the UPDATE (with the trigger it fires) and the commit.
update_write(w) ==
    /\ req[w].op = "update" /\ req[w].pc = "update"
    /\ items' = UpdateRows(items, req[w].id, req[w].data, now)
    /\ req' = [req EXCEPT ![w].pc = "select", ![w].stmts = @ + 1,
                          ![w].rowcount = Cardinality(SelectById(items, req[w].id))]
    /\ UNCHANGED <<sqlite_sequence, now, resp, log, g_db, leaked, teardown_error, nops,
                   assigned, deleted_ok>>

\* update_item, the SELECT of the updated row and the response.
update_select(w) ==
    /\ req[w].op = "update" /\ req[w].pc = "select"
    /\ LET r == [req[w] EXCEPT !.stmts = @ + 1]
           item == SelectById(items, r.id)
       IN IF item = {}
          THEN Except(w, r, AttributeError)
          ELSE Return(w, r, [status |-> 200, message |-> "Item updated successfully",
                             item |-> CHOOSE row \in item : TRUE])
    /\ UNCHANGED <<items, sqlite_sequence, now, g_db, leaked, teardown_error, nops,
                   assigned, deleted_ok>>

\* DELETE /items/<id>: get_db and the existence SELECT.
delete_item(w, item_id) ==
    /\ Begin(w)
    /\ nops' = nops + 1
    /\ get_db(w)
    /\ LET item == SelectById(items, item_id)
           r == Started("delete", "delete", item_id, EmptyBody, item, 1)
       IN IF item = {}
          THEN Return(w, r, [status |-> 404, error |-> "Item not found"])
          ELSE /\ req' = [req EXCEPT ![w] = r]
               /\ UNCHANGED <<resp, log>>
    /\ UNCHANGED <<items, sqlite_sequence, now, teardown_error, assigned, deleted_ok>>

\* delete_item, the DELETE, the commit and the response.
delete_write(w) ==
    /\ req[w].op = "delete" /\ req[w].pc = "delete"
    /\ items' = DeleteRows(items, req[w].id)
    /\ deleted_ok' = deleted_ok \cup {req[w].id}
    /\ Return(w, [req[w] EXCEPT !.stmts = @ + 1,
                                !.rowcount = Cardinality(SelectById(items, req[w].id))],
              [status |-> 200, message |-> "Item deleted successfully"])
    /\ UNCHANGED <<sqlite_sequence, now, g_db, leaked, teardown_error, nops, assigned>>

\* GET /items/<id>
get_item(w, item_id) ==
    /\ Begin(w)
    /\ nops' = nops + 1
    /\ get_db(w)
    /\ LET item == SelectById(items, item_id)
           r == Started("get_item", "done", item_id, EmptyBody, item, 1)
       IN IF item = {}
          THEN Return(w, r, [status |-> 404, error |-> "Item not found"])
          ELSE Return(w, r, [status |-> 200, item |-> CHOOSE row \in item : TRUE])
    /\ UNCHANGED <<items, sqlite_sequence, now, teardown_error, assigned, deleted_ok>>

\* The cap of per_page.
MaxPerPage == 100

\* The per_page of get_items: min(argument, 100).
PerPage(arg) == IF arg < MaxPerPage THEN arg ELSE MaxPerPage

\* Python's a // b for b # 0: the floor of the quotient.
FloorDiv(a, b) == IF b > 0 THEN a \div b ELSE (0 - a) \div (0 - b)

\* GET /items: get_db, the query parameters and the COUNT(*) query.
get_items(w, page, per_page_arg, category) ==
    /\ Begin(w)
    /\ nops' = nops + 1
    /\ get_db(w)
    /\ req' = [req EXCEPT ![w] =
                 [op |-> "get_items", pc |-> "page", page |-> page,
                  per_page |-> PerPage(per_page_arg), category |-> category,
                  total_items |-> Cardinality(Matching(items, category)), stmts |-> 1]]
    /\ UNCHANGED <<items, sqlite_sequence, now, resp, log, teardown_error, assigned,
                   deleted_ok>>

\* get_items, the LIMIT/OFFSET query, the pagination arithmetic and the response.
get_items_page(w) ==
    /\ req[w].op = "get_items" /\ req[w].pc = "page"
    /\ LET r == [req[w] EXCEPT !.stmts = @ + 1]
           offset == (r.page - 1) * r.per_page
           rows == LimitOffset(SortById(Matching(items, r.category)), r.per_page, offset)
           total_pages == FloorDiv(r.total_items + r.per_page - 1, r.per_page)
       IN IF r.per_page = 0
          THEN Except(w, r, ZeroDivisionError)
          ELSE Return(w, r,
                 [status |-> 200, items |-> rows,
                  pagination |-> [page |-> r.page, per_page |-> r.per_page,
                                  total_items |-> r.total_items,
                                  total_pages |-> total_pages,
                                  has_next |-> r.page < total_pages,
                                  has_prev |-> r.page > 1]])
    /\ UNCHANGED <<items, sqlite_sequence, now, g_db, leaked, teardown_error, nops,
                   assigned, deleted_ok>>

\* GET /items/categories: the distinct non-NULL categories (their order is not modelled).
get_categories(w) ==
    /\ Begin(w)
    /\ nops' = nops + 1
    /\ get_db(w)
    /\ Return(w, [op |-> "categories", pc |-> "done", stmts |-> 1],
              [status |-> 200,
               categories |-> {r.category.v : r \in {q \in items : q.category # Null}}])
    /\ UNCHANGED <<items, sqlite_sequence, now, teardown_error, assigned, deleted_ok>>

\* GET /health: get_db and SELECT 1.
health_check(w) ==
    /\ Begin(w)
    /\ nops' = nops + 1
    /\ get_db(w)
    /\ Return(w, [op |-> "health", pc |-> "done", stmts |-> 1],
              [status |-> 200, health |-> "healthy", database |-> "connected"])
    /\ UNCHANGED <<items, sqlite_sequence, now, teardown_error, assigned, deleted_ok>>

\* init_db, run by a start of the program: CREATE TABLE/TRIGGER IF NOT EXISTS, the
\* seeding of an empty table, the commit; then leaving the application context
\* runs the teardown function, which raises.
init_db ==
    /\ nops < MaxOps
    /\ nops' = nops + 1
    /\ LET db == Initialized([rows |-> items, seq |-> sqlite_sequence], now)
       IN /\ items' = db.rows
          /\ sqlite_sequence' = db.seq
          /\ assigned' = assigned \o db.ids
    /\ leaked' = TRUE
    /\ teardown_error' = TRUE
    /\ UNCHANGED <<now, req, resp, log, g_db, deleted_ok>>

\* The teardown function registered with teardown_appcontext: the second def
\* close_db(error), whose body calls close_db() without the argument it requires.
\* The call raises TypeError before g.pop and db.close() of the first def can run:
\* the context ends, and the connection it held was not closed.
close_db(w) ==
    /\ req[w].pc = "done"
    /\ req' = [req EXCEPT ![w] = Idle]
    /\ resp' = [resp EXCEPT ![w] = NoResp]
    /\ log' = [log EXCEPT ![w] = NoLog]
    /\ teardown_error' = TRUE
    /\ g_db' = [g_db EXCEPT ![w] = FALSE]
    /\ leaked' = (leaked \/ g_db[w])
    /\ UNCHANGED <<items, sqlite_sequence, now, nops, assigned, deleted_ok>>

\* A second of the store's clock passes.
Tick ==
    /\ now < MaxClock
    /\ now' = now + 1
    /\ UNCHANGED <<items, sqlite_sequence, req, resp, log, g_db, leaked, teardown_error,
                   nops, assigned, deleted_ok>>

\* What the store raises when it cannot serve a statement.
StoreErrors == {"database is locked"}

\* The handlers whose first statement can fail, and the log name of each.
StoreOps == {"health", "categories", "get_items", "get_item", "create", "update", "delete"}

\* get_db or the first statement of a handler raises e, under a request that gets
\* the handler there (for create and update: one whose body is not empty, and for
\* create passes the validation).  The request's id and body play no part.
store_fault_first(w, op, e) ==
    /\ Begin(w)
    /\ nops' = nops + 1
    /\ get_db(w)
    /\ Except(w, Started(op, "done", 0, EmptyBody, {}, 1), e)
    /\ UNCHANGED <<items, sqlite_sequence, now, teardown_error, assigned, deleted_ok>>

\* A later statement of a handler raises e; nothing is committed.
store_fault_later(w, e) ==
    /\ req[w].pc \in {"select", "update", "delete", "page"}
    /\ Except(w, [req[w] EXCEPT !.stmts = @ + 1], e)
    /\ UNCHANGED <<items, sqlite_sequence, now, g_db, leaked, teardown_error, nops,
                   assigned, deleted_ok>>

Next ==
    \/ \E w \in Workers, data \in Bodies : create_item(w, data)
    \/ \E w \in Workers : create_select(w)
    \/ \E w \in Workers, item_id \in PathIds, data \in Bodies : update_item(w, item_id, data)
    \/ \E w \in Workers : update_write(w)
    \/ \E w \in Workers : update_select(w)
    \/ \E w \in Workers, item_id \in PathIds : delete_item(w, item_id)
    \/ \E w \in Workers : delete_write(w)
    \/ \E w \in Workers, item_id \in PathIds : get_item(w, item_id)
    \/ \E w \in Workers, q \in Queries : get_items(w, q[1], q[2], q[3])
    \/ \E w \in Workers : get_items_page(w)
    \/ \E w \in Workers : get_categories(w)
    \/ \E w \in Workers : health_check(w)
    \/ init_db
    \/ \E w \in Workers : close_db(w)
    \/ Tick

Spec == Init /\ [][Next]_vars

\* The requests, and the store failing under them.
NextF ==
    \/ Next
    \/ \E w \in Workers, op \in StoreOps, e \in StoreErrors : store_fault_first(w, op, e)
    \/ \E w \in Workers, e \in StoreErrors : store_fault_later(w, e)

SpecF == Init /\ [][NextF]_vars

-----------------------------------------------------------------------------
(* Properties.                                                             *)

\* The handler of worker w for operation op has returned.
Done(w, op) == req[w].op = op /\ req[w].pc = "done"

\* The fields of a body that do not pass the type checks of the data model.
TypeFailures(data) ==
    (IF "price" \in DOMAIN data /\ data["price"] # Null /\ FloatRaises(data["price"])
     THEN {"price"} ELSE {})
    \cup (IF "quantity" \in DOMAIN data /\ data["quantity"] # Null /\ IntRaises(data["quantity"])
          THEN {"quantity"} ELSE {})

\* The fields of a create body that fail validation: name missing or empty, too.
FailedFields(data) ==
    (IF "name" \notin DOMAIN data \/ ~Truthy(data["name"]) THEN {"name"} ELSE {})
    \cup TypeFailures(data)

\* The details entries that mention a field.
Mentions(field) ==
    {"'" \o field \o "' is required", "'" \o field \o "' must be a valid number",
     "'" \o field \o "' must be a valid integer"}

\* The row a handler found by its existence check.
Existing(w) == CHOOSE r \in req[w].existing : TRUE

\* C1: a PUT on an existing id whose body holds a non-empty subset of the mutable
\* fields, all type-checking, returns 200, and the item it returns keeps the id,
\* created_at and every mutable field absent from the body.
C1_PartialUpdateKeepsAbsentFields ==
    \A w \in Workers :
        (/\ Done(w, "update")
         /\ req[w].existing # {}
         /\ UpdateFields(req[w].data) # <<>>
         /\ TypeFailures(req[w].data) = {})
        => /\ resp[w].status = 200
           /\ resp[w].item.id = Existing(w).id
           /\ resp[w].item.created_at = Existing(w).created_at
           /\ \A i \in 1..Len(MutableFields) :
                 MutableFields[i] \notin DOMAIN req[w].data
                 => resp[w].item[MutableFields[i]] = Existing(w)[MutableFields[i]]

\* C2: a POST whose JSON object fails validation (the empty object included) returns
\* 400 with a details list holding an entry for every failed field.
C2_EveryFailedFieldListed ==
    \A w \in Workers :
        (Done(w, "create") /\ FailedFields(req[w].data) # {})
        => /\ resp[w].status = 400
           /\ "details" \in DOMAIN resp[w]
           /\ \A f \in FailedFields(req[w].data) :
                 \E i \in 1..Len(resp[w].details) : resp[w].details[i] \in Mentions(f)

\* C3: the ids INSERT hands out increase strictly over the whole history (so none is
\* handed out twice or reused after a delete), every id a POST returns with 201 is
\* one of them and larger than all handed out before it, and no two stored rows
\* share an id.
C3_IdsStrictlyIncrease ==
    /\ \A i, j \in 1..Len(assigned) : i < j => assigned[i] < assigned[j]
    /\ \A r \in items : \E i \in 1..Len(assigned) : assigned[i] = r.id
    /\ \A r, q \in items : r.id = q.id => r = q
    /\ \A w \in Workers :
          (Done(w, "create") /\ resp[w].status = 201)
          => \E i \in 1..Len(assigned) :
                /\ assigned[i] = resp[w].item.id
                /\ \A j \in 1..(i - 1) : assigned[j] < resp[w].item.id

\* C3 witness: a POST answered 201 after the item with the largest seeded id was deleted.
C3_CreatedAfterDeleteOfLargest ==
    \E w \in Workers :
        /\ Done(w, "create") /\ resp[w].status = 201
        /\ Len(sample_items) \in deleted_ok

\* The least n with n * b >= a, for b > 0.
Ceil(a, b) == (a + b - 1) \div b

\* C4: every GET /items returns 200 with a per_page in 1..100 and the pagination
\* metadata total_pages = ceil(total_items / per_page), has_next = page < total_pages,
\* has_prev = page > 1.
C4_PerPageClampedAndMetadata ==
    \A w \in Workers :
        Done(w, "get_items")
        => /\ resp[w].status = 200
           /\ resp[w].pagination.per_page \in 1..MaxPerPage
           /\ resp[w].pagination.total_pages
                 = Ceil(resp[w].pagination.total_items, resp[w].pagination.per_page)
           /\ resp[w].pagination.has_next
                 = (resp[w].pagination.page < resp[w].pagination.total_pages)
           /\ resp[w].pagination.has_prev = (resp[w].pagination.page > 1)

\* C5, in every state: no row has an id whose DELETE answered 200; a GET or DELETE
\* begun after that answer returns 404; a DELETE that found no row returns 404.
C5_DeletedStaysDeleted ==
    /\ \A id \in deleted_ok : SelectById(items, id) = {}
    /\ \A w \in Workers :
          ((Done(w, "get_item") \/ Done(w, "delete")) /\ req[w].gone)
          => resp[w].status = 404
    /\ \A w \in Workers :
          (Done(w, "delete") /\ req[w].existing = {}) => resp[w].status = 404

\* C5, in every step: a DELETE of an id that is not stored changes no row.
C5_DeleteOfAbsentChangesNothing ==
    \A w \in Workers :
        (req[w].pc = "idle" /\ req'[w].op = "delete" /\ req'[w].existing = {})
        => /\ items' = items
           /\ req'[w].pc = "done"

\* C5: deletion is final, and deleting what is not stored answers 404 and changes
\* nothing.
C5_DeletionIsFinal == []C5_DeletedStaysDeleted /\ [][C5_DeleteOfAbsentChangesNothing]_vars

\* C5 witness: a GET of the largest seeded id, begun after its DELETE answered 200,
\* has returned 404.
C5_GetAfterDelete ==
    \E w \in Workers :
        /\ Done(w, "get_item") /\ req[w].gone
        /\ req[w].id = Len(sample_items)
        /\ resp[w].status = 404

\* C6 (original): every PUT answered 200 leaves updated_at strictly greater than
\* the value the item had before.
C6_UpdatedAtStrictlyIncreases ==
    \A w \in Workers :
        (Done(w, "update") /\ resp[w].status = 200)
        => resp[w].item.updated_at > Existing(w).updated_at

\* C6 (amended), in every state: created_at <= updated_at for every row; the item
\* a PUT returns with 200 has the created_at it had, and an updated_at that is
\* neither before the value it had nor before the second the request began in.
C6_TimestampsOrdered ==
    /\ \A r \in items : r.created_at <= r.updated_at
    /\ \A w \in Workers :
          (Done(w, "update") /\ resp[w].status = 200)
          => /\ resp[w].item.created_at = Existing(w).created_at
             /\ resp[w].item.updated_at >= Existing(w).updated_at
             /\ resp[w].item.updated_at >= req[w].t0

\* C6 (amended), in every step: a new row starts with created_at = updated_at; a
\* row that stays keeps created_at, its updated_at does not decrease, and when
\* the row changed it is the second of the change.
C6_TimestampStep ==
    \A r \in items' :
        IF SelectById(items, r.id) = {}
        THEN r.created_at = r.updated_at
        ELSE \A o \in SelectById(items, r.id) :
                /\ r.created_at = o.created_at
                /\ r.updated_at >= o.updated_at
                /\ r # o => r.updated_at = now

\* C6 (amended): updated_at is refreshed to the store's clock, which counts whole
\* seconds, so it never decreases and created_at never changes.
C6_UpdatedAtRefreshed == []C6_TimestampsOrdered /\ [][C6_TimestampStep]_vars

\* C6 witness: a PUT answered 200 a second or more after the item was last written.
C6_UpdateInLaterSecond ==
    \E w \in Workers :
        /\ Done(w, "update") /\ resp[w].status = 200
        /\ resp[w].item.updated_at > Existing(w).updated_at

C8_InvalidBodyNeverReachesStore ==
    \A w \in Workers :
        (\/ Done(w, "create") /\ FailedFields(req[w].data) # {}
         \/ Done(w, "update") /\ TypeFailures(req[w].data) # {})
        => /\ resp[w].status = 400
           /\ req[w].stmts = 0

\* C9: a handler whose existence check found the row and whose write then changed
\* no row (the row was deleted in between) answers 404 or 500, never success, and
\* the table holds no row of that id.
C9_NoSuccessForWriteOfNoRow ==
    \A w \in Workers :
        (/\ Done(w, "update") \/ Done(w, "delete")
         /\ req[w].existing # {}
         /\ req[w].stmts >= 2
         /\ req[w].rowcount = 0)
        => /\ resp[w].status \in {404, 500}
           /\ SelectById(items, req[w].id) = {}

\* C10: when no request is in progress, no context has left a connection open and
\* no teardown has raised.
C10_ConnectionsClosedAtTeardown ==
    (\A w \in Workers : req[w] = Idle) => (~leaked /\ ~teardown_error)

====
